---- MODULE Spec2Model ----
(***************************************************************************)
(* Token lifecycle of the Kick client: kick.auth.AuthManager and the       *)
(* exported monolithic kick.client.KickClient.                             *)
(*                                                                         *)
(* One manager object, its token file, the OAuth redirect handler that is  *)
(* registered on the manager's Flask app, and one caller thread that runs  *)
(* get_access_token.  A call is cut at the points where it waits for the   *)
(* outside world (an HTTP response, the code queue), since the redirect    *)
(* handler runs on another thread and interleaves there.                   *)
(*                                                                         *)
(* Python values: None is the string "None"; a str is a TLA+ string; a     *)
(* dict is a function from its keys; a parsed JSON document is             *)
(* <<"dict", d>> or <<"list">>; the text of a file is <<"missing">>,       *)
(* <<"invalid">> or <<"json", ...>>.                                       *)
(***************************************************************************)
EXTENDS Naturals, Sequences, FiniteSets, TLC

VARIABLES
    cls,            \* the class of the manager object
    access_token,   \* self.access_token
    refresh_token,  \* self.refresh_token
    _token_data,    \* self._token_data
    token_file,     \* the text of the file self.token_file names
    _code_queue,    \* self._code_queue
    _state,         \* self._state
    listener,       \* a thread running self._app exists
    pc,             \* where the caller thread is in get_access_token
    force_new,      \* the force_new argument of the call in progress
    code,           \* _full_oauth_flow's local `code`
    code_verifier,  \* _full_oauth_flow's local `code_verifier`
    outcome,        \* how the last call ended
    ret,            \* what the last call returned
    call,           \* what the call in progress (or the last one) did
    cb,             \* the last redirect request and its answer
    ncalls,         \* calls started
    nflows,         \* authorization flows started
    writers         \* the threads that are inside _save_token, each at its line

vars == <<cls, access_token, refresh_token, _token_data, token_file,
          _code_queue, _state, listener, pc, force_new, code, code_verifier,
          outcome, ret, call, cb, ncalls, nflows, writers>>

(***************************************************************************)
(* Bounds of the model.                                                    *)
(***************************************************************************)
MaxCalls == 2
MaxQueue == 2

(***************************************************************************)
(* Python values.                                                          *)
(***************************************************************************)
None == "None"

\* bool(v) of a str or None: None and "" are falsy.
Truthy(v) == v # None /\ v # ""

\* Token strings: what a token file may hold when the manager is constructed
\* (an empty access token among them) and what the token endpoint issues
\* (besides them, an access_token that is JSON null).
StoredAccess == {"", "a1"}

StoredRefresh == {"r1"}

IssuedAccess == {"a2"}

IssuedRefresh == {"r2"}

Keys == <<"access_token", "refresh_token">>

KeySet == {Keys[i] : i \in DOMAIN Keys}

\* The dicts a token record can be: any subset of the two keys.
Dicts(A, R) ==
    UNION {{d \in [D -> A \cup R] :
               /\ "access_token" \in D => d["access_token"] \in A
               /\ "refresh_token" \in D => d["refresh_token"] \in R} : D \in SUBSET KeySet}

\* dict.get(k): the value, None when the key is absent.
Get(d, k) == IF k \in DOMAIN d THEN d[k] ELSE None

PyNone == <<"None">>

PyList == <<"list">>

PyDict(d) == <<"dict", d>>

IsDict(doc) == doc[1] = "dict"

(***************************************************************************)
(* The token file: json.dump and json.load.                                *)
(***************************************************************************)
FileMissing == <<"missing">>

\* A file that exists and that open(self.token_file) cannot read.
FileUnreadable == <<"unreadable">>

\* Text that json.load rejects: not JSON, or the empty or cut-off text that
\* open(..., "w") and an interrupted json.dump leave behind.
FileInvalid == <<"invalid">>

\* The text of a JSON array: valid JSON that is no object.
FileArray == <<"json", "array">>

\* A JSON string literal; null for None.
JsonString(v) == <<"string", v>>

\* Mutant of JsonDump: the record is written without its refresh_token.
JsonDump_AccessTokenOnly(d) ==
    LET ks == SelectSeq(Keys, LAMBDA k : k \in DOMAIN d /\ k = "access_token")
    IN  <<"json", "object", [i \in 1..Len(ks) |-> <<ks[i], JsonString(d[ks[i]])>>]>>

\* json.dump of a dict: one member per key the dict holds, in key order.
JsonDump(d) ==
    LET ks == SelectSeq(Keys, LAMBDA k : k \in DOMAIN d)
    IN  <<"json", "object", [i \in 1..Len(ks) |-> <<ks[i], JsonString(d[ks[i]])>>]>>

\* json.load of a file's text: the document, or <<"raise">> on text that is
\* not JSON.
JsonLoad(text) ==
    IF text[1] # "json" THEN <<"raise">>
    ELSE IF text[2] = "array" THEN PyList
    ELSE LET ms == text[3]
             member(k) == CHOOSE i \in DOMAIN ms : ms[i][1] = k
         IN  PyDict([k \in {ms[i][1] : i \in DOMAIN ms} |-> ms[member(k)][2][2]])

\* The texts a token file can hold when a manager is constructed on it.
FileTexts ==
    {FileMissing, FileUnreadable, FileInvalid, FileArray} \cup {JsonDump(d) : d \in Dicts(StoredAccess, StoredRefresh)}

\* Mutant of _load_token: without the try/except, open, json.load and the
\* missing .get of a list raise out of __init__.
_load_token_NoExcept(text) ==
    LET empty == [token_data |-> PyNone, access_token |-> None, refresh_token |-> None,
                  raised |-> FALSE]
        doc   == JsonLoad(text)
    IN  IF text = FileMissing THEN empty
        ELSE IF text = FileUnreadable THEN [empty EXCEPT !.raised = TRUE]
        ELSE IF doc = <<"raise">> THEN [empty EXCEPT !.raised = TRUE]
        ELSE IF ~IsDict(doc) THEN [empty EXCEPT !.token_data = doc, !.raised = TRUE]
        ELSE [token_data    |-> doc,
              access_token  |-> Get(doc[2], "access_token"),
              refresh_token |-> Get(doc[2], "refresh_token"),
              raised        |-> FALSE]

\* _load_token, from the fields __init__ has just set to None: the fields
\* after it, and whether it raised.  Every failure is swallowed (except
\* Exception: pass): open's, json.load's, and the missing .get of a JSON
\* array, which is stored in _token_data before .get raises.
_load_token(text) ==
    LET empty == [token_data |-> PyNone, access_token |-> None, refresh_token |-> None,
                  raised |-> FALSE]
        doc   == JsonLoad(text)
    IN  IF text = FileMissing THEN empty
        ELSE IF text = FileUnreadable THEN empty
        ELSE IF doc = <<"raise">> THEN empty
        ELSE IF ~IsDict(doc) THEN [empty EXCEPT !.token_data = doc]
        ELSE [token_data    |-> doc,
              access_token  |-> Get(doc[2], "access_token"),
              refresh_token |-> Get(doc[2], "refresh_token"),
              raised        |-> FALSE]

\* What the file system does to one open-and-write: the write completes, the
\* open fails (the file is untouched), or the write fails after the open
\* has truncated the file.
FsOutcomes == {"ok", "open_failed", "write_failed"}

\* Mutant of _save_token: a record without refresh_token keeps the cached
\* one (token_data.get("refresh_token", self.refresh_token)).
_save_token_KeepsRefresh(doc, fs) ==
    IF ~IsDict(doc)
    THEN [token_data |-> doc, access_token |-> access_token,
          refresh_token |-> refresh_token, file |-> token_file, raised |-> TRUE]
    ELSE [token_data    |-> doc,
          access_token  |-> Get(doc[2], "access_token"),
          refresh_token |-> IF "refresh_token" \in DOMAIN doc[2]
                            THEN doc[2]["refresh_token"] ELSE refresh_token,
          file          |-> CASE fs = "ok"           -> JsonDump(doc[2])
                              [] fs = "open_failed"  -> token_file
                              [] fs = "write_failed" -> FileInvalid,
          raised        |-> fs # "ok"]

\* _save_token(token_data) under file-system outcome fs: the fields and the
\* file after it, and whether it raised.  The fields are assigned before the
\* file is opened; a document that is no dict has no .get.
_save_token(doc, fs) ==
    IF ~IsDict(doc)
    THEN [token_data |-> doc, access_token |-> access_token,
          refresh_token |-> refresh_token, file |-> token_file, raised |-> TRUE]
    ELSE [token_data    |-> doc,
          access_token  |-> Get(doc[2], "access_token"),
          refresh_token |-> Get(doc[2], "refresh_token"),
          file          |-> CASE fs = "ok"           -> JsonDump(doc[2])
                              [] fs = "open_failed"  -> token_file
                              [] fs = "write_failed" -> FileInvalid,
          raised        |-> fs # "ok"]

(***************************************************************************)
(* HTTP.  A response is its status and, for a 200 of the token endpoint,   *)
(* what r.json() makes of the body.  Status 0 stands for no response:      *)
(* requests raised (connection error, timeout).                            *)
(***************************************************************************)
Statuses == {200, 401}

NoBody == <<"none">>

\* A body that is not JSON: r.json() raises.
BodyNotJson == <<"notjson">>

TransportError == [status |-> 0, body |-> NoBody]

\* The body of an error answer: a JSON object that holds no token.
ErrorBody == PyDict([k \in {} |-> None])

Rejections == {[status |-> s, body |-> ErrorBody] : s \in Statuses \ {200}}

\* A record whose access_token is JSON null: r.json() gives None for it.
NullAccessToken == [k \in {"access_token"} |-> None]

\* The records a 200 answer can carry: any of the two keys, or a null
\* access_token.
IssuedRecords == Dicts(IssuedAccess, IssuedRefresh) \cup {NullAccessToken}

\* The 200 answers of the token endpoint: a JSON object, a JSON array, or a
\* body that is not JSON.
Successes ==
    {[status |-> 200, body |-> b] : b \in {PyDict(d) : d \in IssuedRecords} \cup {PyList, BodyNotJson}}

\* What the token endpoint can answer.
TokenResponses == Successes \cup Rejections

NoResponse == [status |-> 0, body |-> <<"unsent">>]

\* Mutant of TestTokenSends: the early return is taken on None only
\* (if self.access_token is None).
TestTokenSends_UnlessNone(at) == at # None

\* Mutant of TestTokenSends: the early return on a missing token is left out.
TestTokenSends_Always(at) == TRUE

\* _test_token sends its request only when an access token is cached.
TestTokenSends(at) == Truthy(at)

\* Mutant of _test_token: the comparison with 200 is inverted.
_test_token_Inverted(at, status) == TestTokenSends(at) /\ status # 200

\* _test_token: False without a request when no access token is cached;
\* otherwise True exactly on status 200 (a raised request is swallowed).
_test_token(at, status) == TestTokenSends(at) /\ status = 200

\* Mutant of TokenEndpointOk: the status is not looked at.
TokenEndpointOk_AnyStatus(r) == TRUE

\* r.status_code == 200 at the token endpoint.
TokenEndpointOk(r) == r.status = 200

(***************************************************************************)
(* The redirect handler.                                                   *)
(***************************************************************************)
\* The n-th value of secrets.token_urlsafe: fresh at every draw.
StateValue(n) == "st" \o ToString(n)

VerifierValue(n) == "cv" \o ToString(n)

\* request.args.get("code") and request.args.get("state"): None when the
\* parameter is missing.
CodeParams == {None, "c1"}

\* The state values a request can carry: none, one that was never generated,
\* or one generated so far.
StateParams == {None, "forged"} \cup {StateValue(n) : n \in 1..nflows}

\* if code and state == self._state
CallbackAccepts(c, s) == Truthy(c) /\ s = _state

NoCallback == [code |-> None, state |-> None, matched |-> FALSE, status |-> 0, put |-> FALSE]

(***************************************************************************)
(* What one call did: the requests it sent and what it started.            *)
(***************************************************************************)
Snapshot ==
    [access_token |-> access_token, refresh_token |-> refresh_token,
     token_data |-> _token_data, file |-> token_file]

NewCall(f) ==
    [force_new |-> f,
     before    |-> Snapshot,      \* the cache and the file when the call began
     n_test    |-> 0,             \* validity-check requests sent
     n_refresh |-> 0,             \* refresh requests sent
     n_exchange |-> 0,            \* code-exchange requests sent
     test      |-> NoResponse.status,   \* the validity check's status
     refresh   |-> NoResponse,    \* the refresh request's response
     exchange  |-> NoResponse,    \* the code exchange's response
     fs        |-> "none",        \* the file-system outcome of its _save_token
     browser   |-> FALSE,         \* webbrowser.open was called
     thread    |-> FALSE,         \* the listener thread was started
     waited    |-> FALSE,         \* it blocked on the code queue
     timed_out |-> FALSE,         \* the wait on the code queue expired
     backlog   |-> 0,             \* codes on the queue when its flow began
     code_from |-> "none",        \* when the code its flow took was queued
     flow      |-> "not run",     \* how _full_oauth_flow ended
     via       |-> "none"]        \* the statement that ended it

\* Two threads that call get_access_token on one manager and reach
\* _save_token.
Writers == {"w1", "w2"}

\* No thread has entered _save_token.
NoWriters == [t \in Writers |-> [at |-> "before", token_data |-> PyNone]]

\* The state after __init__ of class c has completed, on any token file.
Constructed(c) ==
    /\ cls = c
    /\ token_file \in FileTexts
    /\ ~_load_token(token_file).raised
    /\ _token_data = _load_token(token_file).token_data
    /\ access_token = _load_token(token_file).access_token
    /\ refresh_token = _load_token(token_file).refresh_token
    /\ _code_queue = <<>>
    /\ _state = None
    /\ listener = FALSE
    /\ pc = "idle"
    /\ force_new = FALSE
    /\ code = None
    /\ code_verifier = None
    /\ outcome = "none"
    /\ ret = None
    /\ call = NewCall(FALSE)
    /\ cb = NoCallback
    /\ ncalls = 0
    /\ nflows = 0
    /\ writers = NoWriters

\* The statement that ends a call: return v, or raise; c is what the call
\* did up to it.
Finish(how, v, c, via) ==
    /\ pc' = "idle"
    /\ outcome' = how
    /\ ret' = v
    /\ call' = [c EXCEPT !.via = via]

KickAuthenticationError == "KickAuthenticationError"

\* Any exception that is no KickAuthenticationError: what requests, r.json(),
\* open and dict access raise.
OtherException == "Exception"

tokens == <<access_token, refresh_token, _token_data, token_file>>

flow == <<_code_queue, _state, listener, code, code_verifier, nflows>>

\* The fields and the file after _save_token returned or raised.
Saved(s) ==
    /\ _token_data' = s.token_data
    /\ access_token' = s.access_token
    /\ refresh_token' = s.refresh_token
    /\ token_file' = s.file

(***************************************************************************)
(* get_access_token(scopes, force_new).                                    *)
(***************************************************************************)
\* Mutant of GetAccessToken: force_new is not looked at before cases 1 to 3.
GetAccessToken_IgnoresForceNew(f) ==
    /\ pc = "idle"
    /\ ncalls < MaxCalls
    /\ ncalls' = ncalls + 1
    /\ force_new' = f
    /\ pc' = "case1"
    /\ outcome' = "none"
    /\ ret' = None
    /\ call' = NewCall(f)
    /\ UNCHANGED <<cls, writers, tokens, flow, cb>>

\* The call begins.  With force_new the conditions of cases 1 to 3 are all
\* false before they send anything, and control reaches case 4.
GetAccessToken(f) ==
    /\ pc = "idle"
    /\ ncalls < MaxCalls
    /\ ncalls' = ncalls + 1
    /\ force_new' = f
    /\ pc' = IF f THEN "flow" ELSE "case1"
    /\ outcome' = "none"
    /\ ret' = None
    /\ call' = NewCall(f)
    /\ UNCHANGED <<cls, writers, tokens, flow, cb>>

\* Case 1, no access token cached: _test_token returns False at once.
Case1_NoToken ==
    /\ pc = "case1"
    /\ ~TestTokenSends(access_token)
    /\ pc' = "case2"
    /\ UNCHANGED <<cls, writers, tokens, flow, cb, force_new, outcome, ret, call, ncalls>>

\* Mutant of Case1_TestToken: an exception of requests.get is not caught.
Case1_TestToken_Propagates(status) ==
    /\ pc = "case1"
    /\ TestTokenSends(access_token)
    /\ LET c == [call EXCEPT !.n_test = @ + 1, !.test = status]
       IN  IF status = TransportError.status
           THEN Finish(OtherException, None, c, "case1")
           ELSE IF _test_token(access_token, status)
           THEN Finish("returned", access_token, c, "case1")
           ELSE /\ pc' = "case2"
                /\ call' = c
                /\ UNCHANGED <<outcome, ret>>
    /\ UNCHANGED <<cls, writers, tokens, flow, cb, force_new, ncalls>>

\* Case 1, the validity check is sent and answered (status 0: it raised).
Case1_TestToken(status) ==
    /\ pc = "case1"
    /\ TestTokenSends(access_token)
    /\ LET c == [call EXCEPT !.n_test = @ + 1, !.test = status]
       IN  IF _test_token(access_token, status)
           THEN Finish("returned", access_token, c, "case1")
           ELSE /\ pc' = "case2"
                /\ call' = c
                /\ UNCHANGED <<outcome, ret>>
    /\ UNCHANGED <<cls, writers, tokens, flow, cb, force_new, ncalls>>

\* Case 2 is skipped: no refresh token cached.
Case2_NoRefreshToken ==
    /\ pc = "case2"
    /\ ~Truthy(refresh_token)
    /\ pc' = "case3"
    /\ UNCHANGED <<cls, writers, tokens, flow, cb, force_new, outcome, ret, call, ncalls>>

\* _refresh_token: requests.post raises.
Refresh_TransportError ==
    /\ pc = "case2"
    /\ Truthy(refresh_token)
    /\ Finish(OtherException, None,
              [call EXCEPT !.n_refresh = @ + 1, !.refresh = TransportError], "refresh")
    /\ UNCHANGED <<cls, writers, tokens, flow, cb, force_new, ncalls>>

\* _refresh_token, status 200: _save_token(r.json()), return True, and
\* get_access_token returns self.access_token.
Refresh_Ok(r, fs) ==
    /\ pc = "case2"
    /\ Truthy(refresh_token)
    /\ TokenEndpointOk(r)
    /\ IsDict(r.body) \/ fs = "ok"
    /\ LET c == [call EXCEPT !.n_refresh = @ + 1, !.refresh = r]
           s == _save_token(r.body, fs)
       IN  IF r.body = BodyNotJson
           THEN /\ Finish(OtherException, None, c, "refresh")
                /\ UNCHANGED tokens
           ELSE /\ Saved(s)
                /\ IF s.raised
                   THEN Finish(OtherException, None,
                               [c EXCEPT !.fs = IF IsDict(r.body) THEN fs ELSE "none"],
                               "refresh")
                   ELSE Finish("returned", s.access_token, [c EXCEPT !.fs = fs], "case2")
    /\ UNCHANGED <<cls, writers, flow, cb, force_new, ncalls>>

\* Mutant of Refresh_Rejected: a rejected refresh is sent again.
Refresh_Rejected_Retries(r) ==
    /\ cls = "AuthManager"
    /\ pc = "case2"
    /\ Truthy(refresh_token)
    /\ ~TokenEndpointOk(r)
    /\ pc' = "case2"
    /\ call' = [call EXCEPT !.n_refresh = @ + 1, !.refresh = r]
    /\ UNCHANGED <<cls, writers, tokens, flow, cb, force_new, outcome, ret, ncalls>>

\* AuthManager._refresh_token, any other status: raise.
Refresh_Rejected(r) ==
    /\ cls = "AuthManager"
    /\ pc = "case2"
    /\ Truthy(refresh_token)
    /\ ~TokenEndpointOk(r)
    /\ Finish(KickAuthenticationError, None,
              [call EXCEPT !.n_refresh = @ + 1, !.refresh = r], "refresh")
    /\ UNCHANGED <<cls, writers, tokens, flow, cb, force_new, ncalls>>

\* KickClient._refresh_token, any other status: return False, and
\* get_access_token goes on to the full flow.
KickClient_Refresh_Rejected(r) ==
    /\ cls = "KickClient"
    /\ pc = "case2"
    /\ Truthy(refresh_token)
    /\ ~TokenEndpointOk(r)
    /\ pc' = "flow"
    /\ call' = [call EXCEPT !.n_refresh = @ + 1, !.refresh = r]
    /\ UNCHANGED <<cls, writers, tokens, flow, cb, force_new, outcome, ret, ncalls>>

\* AuthManager, case 3: not forcing, nothing validated or refreshed: raise
\* (either message).
Case3 ==
    /\ cls = "AuthManager"
    /\ pc = "case3"
    /\ Finish(KickAuthenticationError, None, call, "case3")
    /\ UNCHANGED <<cls, writers, tokens, flow, cb, force_new, ncalls>>

\* KickClient has no case 3: it goes on to the full flow.
KickClient_Case3 ==
    /\ cls = "KickClient"
    /\ pc = "case3"
    /\ pc' = "flow"
    /\ UNCHANGED <<cls, writers, tokens, flow, cb, force_new, outcome, ret, call, ncalls>>


(***************************************************************************)
(* _full_oauth_flow(scopes).                                               *)
(***************************************************************************)
\* Up to the wait: a fresh verifier and state, the browser, the listener
\* thread.
FlowStart ==
    /\ pc = "flow"
    /\ nflows' = nflows + 1
    /\ code_verifier' = VerifierValue(nflows + 1)
    /\ _state' = StateValue(nflows + 1)
    /\ listener' = TRUE
    /\ call' = [call EXCEPT !.browser = TRUE, !.thread = TRUE, !.waited = TRUE,
                             !.backlog = Len(_code_queue)]
    /\ pc' = "wait"
    /\ UNCHANGED <<cls, writers, tokens, _code_queue, code, cb, force_new, outcome, ret, ncalls>>

\* self._code_queue.get(timeout=300) returns the oldest code of the queue:
\* one that was on the queue when the flow began, if there was any, since a
\* flow takes one code only.
Wait_Code ==
    /\ pc = "wait"
    /\ _code_queue # <<>>
    /\ code' = Head(_code_queue)
    /\ _code_queue' = Tail(_code_queue)
    /\ pc' = "exchange"
    /\ call' = [call EXCEPT !.code_from = IF call.backlog > 0 THEN "earlier"
                                                              ELSE "this flow"]
    /\ UNCHANGED <<cls, writers, tokens, _state, listener, code_verifier, nflows, cb,
                   force_new, outcome, ret, ncalls>>

\* Mutant of Wait_Timeout: get_access_token returns the flow's None without
\* looking at it.
Wait_Timeout_ReturnsNone ==
    /\ cls = "AuthManager"
    /\ pc = "wait"
    /\ _code_queue = <<>>
    /\ Finish("returned", None,
              [call EXCEPT !.timed_out = TRUE, !.flow = "returned None"], "flow")
    /\ UNCHANGED <<cls, writers, tokens, flow, cb, force_new, ncalls>>

\* Mutant of Wait_Timeout: self._code_queue.get() without a timeout never
\* gives up.
Wait_Timeout_Blocks ==
    /\ cls = "AuthManager"
    /\ pc = "wait"
    /\ _code_queue = <<>>
    /\ FALSE
    /\ UNCHANGED vars

\* AuthManager: the queue stayed empty for 300 s; _full_oauth_flow returns
\* None and get_access_token raises.
Wait_Timeout ==
    /\ cls = "AuthManager"
    /\ pc = "wait"
    /\ _code_queue = <<>>
    /\ Finish(KickAuthenticationError, None,
              [call EXCEPT !.timed_out = TRUE, !.flow = "returned None"], "case4")
    /\ UNCHANGED <<cls, writers, tokens, flow, cb, force_new, ncalls>>

\* KickClient: the same timeout; get_access_token returns the flow's None.
KickClient_Wait_Timeout ==
    /\ cls = "KickClient"
    /\ pc = "wait"
    /\ _code_queue = <<>>
    /\ Finish("returned", None,
              [call EXCEPT !.timed_out = TRUE, !.flow = "returned None"], "flow")
    /\ UNCHANGED <<cls, writers, tokens, flow, cb, force_new, ncalls>>

\* The payload of the code exchange: the code and the verifier.
ExchangePayload == [code |-> code, code_verifier |-> code_verifier]

\* The code exchange: requests.post raises.
Exchange_TransportError ==
    /\ pc = "exchange"
    /\ Finish(OtherException, None,
              [call EXCEPT !.n_exchange = @ + 1, !.exchange = TransportError,
                           !.flow = "raised"], "flow")
    /\ UNCHANGED <<cls, writers, tokens, flow, cb, force_new, ncalls>>

\* The code exchange, status 200: data = r.json(); _save_token(data);
\* return data["access_token"], a KeyError when the key is absent.  When
\* the value is None the flow has returned None: AuthManager raises,
\* KickClient returns it.
Exchange_Ok(r, fs) ==
    /\ pc = "exchange"
    /\ TokenEndpointOk(r)
    /\ IsDict(r.body) \/ fs = "ok"
    /\ LET c == [call EXCEPT !.n_exchange = @ + 1, !.exchange = r, !.flow = "raised"]
           s == _save_token(r.body, fs)
       IN  IF r.body = BodyNotJson
           THEN /\ Finish(OtherException, None, c, "flow")
                /\ UNCHANGED tokens
           ELSE /\ Saved(s)
                /\ IF s.raised
                   THEN Finish(OtherException, None,
                               [c EXCEPT !.fs = IF IsDict(r.body) THEN fs ELSE "none"],
                               "flow")
                   ELSE IF "access_token" \notin DOMAIN r.body[2]
                   THEN Finish(OtherException, None, [c EXCEPT !.fs = fs], "flow")
                   ELSE IF r.body[2]["access_token"] # None
                   THEN Finish("returned", r.body[2]["access_token"],
                               [c EXCEPT !.fs = fs, !.flow = "returned token"], "case4")
                   ELSE IF cls = "AuthManager"
                   THEN Finish(KickAuthenticationError, None,
                               [c EXCEPT !.fs = fs, !.flow = "returned None"], "case4")
                   ELSE Finish("returned", None,
                               [c EXCEPT !.fs = fs, !.flow = "returned None"], "flow")
    /\ UNCHANGED <<cls, writers, flow, cb, force_new, ncalls>>

\* Mutant of Exchange_Rejected: the failure is raised by
\* r.raise_for_status(), as requests' own HTTPError.
Exchange_Rejected_RaiseForStatus(r) ==
    /\ cls = "AuthManager"
    /\ pc = "exchange"
    /\ ~TokenEndpointOk(r)
    /\ Finish(OtherException, None,
              [call EXCEPT !.n_exchange = @ + 1, !.exchange = r, !.flow = "raised"], "flow")
    /\ UNCHANGED <<cls, writers, tokens, flow, cb, force_new, ncalls>>

\* AuthManager, the code exchange answered with any other status: raise.
Exchange_Rejected(r) ==
    /\ cls = "AuthManager"
    /\ pc = "exchange"
    /\ ~TokenEndpointOk(r)
    /\ Finish(KickAuthenticationError, None,
              [call EXCEPT !.n_exchange = @ + 1, !.exchange = r, !.flow = "raised"], "flow")
    /\ UNCHANGED <<cls, writers, tokens, flow, cb, force_new, ncalls>>

\* KickClient, the same: _full_oauth_flow returns None, and so does
\* get_access_token.
KickClient_Exchange_Rejected(r) ==
    /\ cls = "KickClient"
    /\ pc = "exchange"
    /\ ~TokenEndpointOk(r)
    /\ Finish("returned", None,
              [call EXCEPT !.n_exchange = @ + 1, !.exchange = r, !.flow = "returned None"],
              "flow")
    /\ UNCHANGED <<cls, writers, tokens, flow, cb, force_new, ncalls>>

(***************************************************************************)
(* The /callback route of self._app, registered in __init__: it answers    *)
(* whenever the app is handed a request.                                   *)
(***************************************************************************)
callback(c, s) ==
    /\ IF CallbackAccepts(c, s)
       THEN /\ Len(_code_queue) < MaxQueue
            /\ _code_queue' = Append(_code_queue, c)
            /\ cb' = [code |-> c, state |-> s, matched |-> s = _state,
                      status |-> 200, put |-> TRUE]
       ELSE /\ _code_queue' = _code_queue
            /\ cb' = [code |-> c, state |-> s, matched |-> s = _state,
                      status |-> 400, put |-> FALSE]
    /\ UNCHANGED <<cls, writers, tokens, _state, listener, code, code_verifier, nflows,
                   pc, force_new, outcome, ret, call, ncalls>>

\* What both classes share.
Shared ==
    \/ \E f \in BOOLEAN : GetAccessToken(f)
    \/ Case1_NoToken
    \/ \E status \in Statuses \cup {TransportError.status} : Case1_TestToken(status)
    \/ Case2_NoRefreshToken
    \/ Refresh_TransportError
    \/ \E r \in TokenResponses, fs \in FsOutcomes : Refresh_Ok(r, fs)
    \/ FlowStart
    \/ Wait_Code
    \/ Exchange_TransportError
    \/ \E r \in TokenResponses, fs \in FsOutcomes : Exchange_Ok(r, fs)
    \/ \E c \in CodeParams, s \in StateParams : callback(c, s)

\* kick.auth.AuthManager.
Init == Constructed("AuthManager")

Next ==
    \/ Shared
    \/ \E r \in TokenResponses : Refresh_Rejected(r)
    \/ Case3
    \/ Wait_Timeout
    \/ \E r \in TokenResponses : Exchange_Rejected(r)

Spec == Init /\ [][Next]_vars

\* A step of the thread that runs get_access_token.
CallStep ==
    \/ Case1_NoToken
    \/ \E status \in Statuses \cup {TransportError.status} : Case1_TestToken(status)
    \/ Case2_NoRefreshToken
    \/ Refresh_TransportError
    \/ \E r \in TokenResponses, fs \in FsOutcomes : Refresh_Ok(r, fs)
    \/ \E r \in TokenResponses : Refresh_Rejected(r)
    \/ Case3
    \/ FlowStart
    \/ Wait_Code
    \/ Wait_Timeout
    \/ Exchange_TransportError
    \/ \E r \in TokenResponses, fs \in FsOutcomes : Exchange_Ok(r, fs)
    \/ \E r \in TokenResponses : Exchange_Rejected(r)

\* AuthManager whose calling thread keeps running: every request it sends
\* is answered or raises, and the wait on the code queue ends with a code
\* or after its 300 s.
Live_Spec == Init /\ [][Next]_vars /\ WF_vars(CallStep)

(***************************************************************************)
(* _save_token run by two threads.  A thread can be preempted between any  *)
(* two statements.  Each open(self.token_file, "w") truncates the file and *)
(* gives a handle of its own at offset 0; the text json.dump produces sits *)
(* in the handle's buffer until the with block closes it, and is then      *)
(* written at offset 0 over whatever the file holds.                       *)
(***************************************************************************)
\* The length of the text json.dump(d, f, indent=2) writes: "{}" for an
\* empty dict, else one line per member between "{" and "}".
TextLength(text) ==
    LET ms == text[3]
        value(v) == IF v = None THEN 4 ELSE Len(v) + 2
        member(i) == 2 + Len(ms[i][1]) + 2 + 2 + value(ms[i][2][2])
        sum[i \in 0..Len(ms)] == IF i = 0 THEN 0 ELSE sum[i - 1] + member(i)
    IN  IF Len(ms) = 0 THEN 2
        ELSE 2 + sum[Len(ms)] + 2 * (Len(ms) - 1) + 2

\* The file after a handle at offset 0 wrote `text` and was closed: `text`
\* alone when the file held nothing longer, else `text` followed by the
\* rest of what it held, which json.load rejects.
WrittenOver(old, text) ==
    IF old[1] = "json" /\ old[2] = "object" /\ TextLength(old) > TextLength(text)
    THEN FileInvalid
    ELSE text

\* What a step of _save_token leaves alone besides the token fields.
NotSaving ==
    <<cls, _code_queue, _state, listener, pc, force_new, code, code_verifier,
      outcome, ret, call, cb, ncalls, nflows>>

\* A thread enters _save_token(token_data).
Save_Enter(t, d) ==
    /\ writers[t].at = "before"
    /\ writers' = [writers EXCEPT ![t] = [at |-> "68", token_data |-> PyDict(d)]]
    /\ UNCHANGED <<NotSaving, tokens>>

\* self._token_data = token_data
Save_TokenData(t) ==
    /\ writers[t].at = "68"
    /\ _token_data' = writers[t].token_data
    /\ writers' = [writers EXCEPT ![t].at = "69"]
    /\ UNCHANGED <<NotSaving, access_token, refresh_token, token_file>>

\* self.access_token = token_data.get("access_token")
Save_AccessToken(t) ==
    /\ writers[t].at = "69"
    /\ access_token' = Get(writers[t].token_data[2], "access_token")
    /\ writers' = [writers EXCEPT ![t].at = "70"]
    /\ UNCHANGED <<NotSaving, _token_data, refresh_token, token_file>>

\* self.refresh_token = token_data.get("refresh_token")
Save_RefreshToken(t) ==
    /\ writers[t].at = "70"
    /\ refresh_token' = Get(writers[t].token_data[2], "refresh_token")
    /\ writers' = [writers EXCEPT ![t].at = "71"]
    /\ UNCHANGED <<NotSaving, _token_data, access_token, token_file>>

\* with open(self.token_file, "w") as f: the file is truncated.
Save_Open(t) ==
    /\ writers[t].at = "71"
    /\ token_file' = FileInvalid
    /\ writers' = [writers EXCEPT ![t].at = "72"]
    /\ UNCHANGED <<NotSaving, _token_data, access_token, refresh_token>>

\* json.dump(token_data, f, indent=2) and the end of the with block.
Save_Dump(t) ==
    /\ writers[t].at = "72"
    /\ token_file' = WrittenOver(token_file, JsonDump(writers[t].token_data[2]))
    /\ writers' = [writers EXCEPT ![t].at = "returned"]
    /\ UNCHANGED <<NotSaving, _token_data, access_token, refresh_token>>

Writers_Next ==
    \E t \in Writers :
        \/ \E d \in IssuedRecords : Save_Enter(t, d)
        \/ Save_TokenData(t)
        \/ Save_AccessToken(t)
        \/ Save_RefreshToken(t)
        \/ Save_Open(t)
        \/ Save_Dump(t)

\* One AuthManager whose _save_token two threads run.
Writers_Spec == Init /\ [][Writers_Next]_vars

\* kick.client.KickClient, the class the package exports.
KickClient_Init == Constructed("KickClient")

KickClient_Next ==
    \/ Shared
    \/ \E r \in TokenResponses : KickClient_Refresh_Rejected(r)
    \/ KickClient_Case3
    \/ KickClient_Wait_Timeout
    \/ \E r \in TokenResponses : KickClient_Exchange_Rejected(r)

KickClient_Spec == KickClient_Init /\ [][KickClient_Next]_vars

(***************************************************************************)
(* Properties of get_access_token.                                         *)
(***************************************************************************)
\* The call the state describes has ended.
Ended == ncalls > 0 /\ pc = "idle"

\* Every request of the call was answered by the server, the token endpoint
\* with a JSON object, and the call's write of the token file, if any,
\* completed.
AnsweredAndWritten ==
    /\ call.n_test > 0 => call.test # TransportError.status
    /\ call.n_refresh > 0 => call.refresh \in TokenResponses /\ IsDict(call.refresh.body)
    /\ call.n_exchange > 0 => call.exchange \in TokenResponses /\ IsDict(call.exchange.body)
    /\ call.fs \in {"none", "ok"}

\* The call did nothing of the interactive flow.
NotInteractive == ~call.browser /\ ~call.thread /\ ~call.waited /\ call.n_exchange = 0

\* A call that does not force a new token never opens the browser, starts
\* the listener thread or waits on the code queue (AuthManager).
NonForcedNeverInteractive ==
    (cls = "AuthManager" /\ ~call.force_new) => NotInteractive /\ pc \notin {"flow", "wait", "exchange"}

\* C1: for every cached token state and every server response,
\* AuthManager.get_access_token(force_new=False) never enters the interactive
\* flow, and it ends by returning a token or by raising
\* KickAuthenticationError.
C1_NonForcedReturnsTokenOrAuthError ==
    (cls = "AuthManager" /\ ~call.force_new /\ AnsweredAndWritten) =>
        /\ NotInteractive
        /\ Ended => \/ outcome = "returned" /\ ret # None
                    \/ outcome = KickAuthenticationError

\* C2: AuthManager.get_access_token(force_new=False) with access_token and
\* refresh_token both None raises KickAuthenticationError and sends no
\* request.
C2_NoTokensRaisesWithoutRequest ==
    (/\ cls = "AuthManager"
     /\ ncalls > 0
     /\ ~call.force_new
     /\ call.before.access_token = None
     /\ call.before.refresh_token = None) =>
        /\ call.n_test = 0 /\ call.n_refresh = 0 /\ call.n_exchange = 0
        /\ Ended => outcome = KickAuthenticationError

C2_Witness ==
    /\ cls = "AuthManager"
    /\ Ended
    /\ ~call.force_new
    /\ call.before.access_token = None
    /\ call.before.refresh_token = None
    /\ outcome = KickAuthenticationError

\* C3: the exported KickClient on a missing token file, access_token and
\* refresh_token None: get_access_token(force_new=False) raises
\* KickAuthenticationError.
C3_KickClientNoTokensRaises ==
    (/\ cls = "KickClient"
     /\ Ended
     /\ ~call.force_new
     /\ call.before.file = FileMissing
     /\ call.before.access_token = None
     /\ call.before.refresh_token = None) =>
        outcome = KickAuthenticationError

\* C4: not forcing, the validity check answered 200: the call returns the
\* cached access token, sends no refresh, starts nothing of the interactive
\* flow, and leaves the cache and the token file as they were.
C4_ValidTokenShortCircuits ==
    (ncalls > 0 /\ ~call.force_new /\ call.n_test > 0 /\ call.test = 200) =>
        /\ Ended
        /\ outcome = "returned"
        /\ ret = call.before.access_token
        /\ call.n_test = 1
        /\ call.n_refresh = 0
        /\ NotInteractive
        /\ Snapshot = call.before

C4_Witness ==
    /\ Ended
    /\ ~call.force_new
    /\ call.test = 200
    /\ call.n_test = 1
    /\ outcome = "returned"
    /\ ret = "a1"
    /\ Truthy(call.before.refresh_token)

\* The call sent one refresh request, which the token endpoint answered
\* with r.
Refreshed(r) == ncalls > 0 /\ ~call.force_new /\ call.n_refresh = 1 /\ call.refresh = r

\* C5: not forcing, the validity check failed, a refresh token is cached and
\* the refresh is answered 200 with a record: the record replaces the cached
\* and the persisted record, refresh_token included (None when the record
\* has none), and the call returns the record's access_token.
C5_RefreshReplacesRecord ==
    \A r \in Successes :
        (Refreshed(r) /\ IsDict(r.body) /\ call.fs = "ok") =>
            /\ Truthy(call.before.refresh_token)
            /\ Ended
            /\ outcome = "returned"
            /\ ret = Get(r.body[2], "access_token")
            /\ _token_data = r.body
            /\ access_token = Get(r.body[2], "access_token")
            /\ refresh_token = Get(r.body[2], "refresh_token")
            /\ JsonLoad(token_file) = r.body

\* A refresh whose record has no refresh_token has dropped the cached one.
C5_Witness ==
    /\ cls = "AuthManager"
    /\ Ended
    /\ Refreshed([status |-> 200, body |-> PyDict([k \in {"access_token"} |-> "a2"])])
    /\ call.fs = "ok"
    /\ call.n_test = 1
    /\ call.before.access_token = "a1"
    /\ call.before.refresh_token = "r1"
    /\ ret = "a2"
    /\ access_token = "a2"
    /\ refresh_token = None
    /\ token_file = JsonDump([k \in {"access_token"} |-> "a2"])

\* C6: not forcing, the validity check failed, a refresh token is cached and
\* the refresh is answered with a status other than 200: the call raises
\* KickAuthenticationError, returns no token and starts nothing of the
\* interactive flow.
C6_RefreshRejectedRaises ==
    \A r \in Rejections :
        (cls = "AuthManager" /\ Refreshed(r)) =>
            /\ Ended
            /\ outcome = KickAuthenticationError
            /\ ret = None
            /\ NotInteractive

C6_Witness ==
    /\ cls = "AuthManager"
    /\ Ended
    /\ \E r \in Rejections : Refreshed(r)
    /\ call.n_test = 1
    /\ Truthy(call.before.refresh_token)
    /\ outcome = KickAuthenticationError

\* C7: forcing, the wait for the code expired: _full_oauth_flow returned
\* None without raising, get_access_token raised KickAuthenticationError,
\* no exchange was sent and nothing was cached or persisted.
C7_TimeoutRaises ==
    (cls = "AuthManager" /\ call.force_new /\ call.timed_out) =>
        /\ Ended
        /\ call.flow = "returned None"
        /\ outcome = KickAuthenticationError
        /\ ret = None
        /\ call.n_exchange = 0
        /\ Snapshot = call.before

C7_Witness ==
    /\ cls = "AuthManager"
    /\ Ended
    /\ call.force_new
    /\ call.timed_out
    /\ call.browser
    /\ outcome = KickAuthenticationError

\* The call's flow received a code and sent one exchange, which the token
\* endpoint answered with r.
Exchanged(r) == ncalls > 0 /\ call.waited /\ call.n_exchange = 1 /\ call.exchange = r

\* C8: forcing, a code was received and the exchange is answered with a
\* status other than 200: the call ends, raising KickAuthenticationError,
\* and returns no token.
C8_ExchangeRejectedRaises ==
    \A r \in Rejections :
        (cls = "AuthManager" /\ call.force_new /\ Exchanged(r)) =>
            /\ Ended
            /\ outcome = KickAuthenticationError
            /\ ret = None

C8_Witness ==
    /\ cls = "AuthManager"
    /\ Ended
    /\ call.force_new
    /\ \E r \in Rejections : Exchanged(r)
    /\ code = "c1"
    /\ outcome = KickAuthenticationError

\* C9: the exported KickClient with no cached tokens, forcing: when the flow
\* yields no token (no code arrives, or the exchange is rejected) the call
\* raises KickAuthenticationError.
C9_KickClientForcedFlowFailureRaises ==
    (/\ cls = "KickClient"
     /\ Ended
     /\ call.force_new
     /\ call.before.access_token = None
     /\ call.before.refresh_token = None
     /\ call.timed_out \/ \E r \in Rejections : Exchanged(r)) =>
        outcome = KickAuthenticationError

\* C10: in every state of the manager, a redirect request without a code,
\* without a state, or with a state other than self._state is answered 400
\* and puts nothing on the code queue.
C10_BadCallbackRejected ==
    (cb.status # 0 /\ (cb.code = None \/ cb.state = None \/ ~cb.matched)) =>
        cb.status = 400 /\ ~cb.put

(***************************************************************************)
(* Properties of the redirect handler and the code queue.                  *)
(***************************************************************************)
\* An authorization flow is in progress: between its start and the end of
\* its code exchange.
InFlow == pc \in {"wait", "exchange"}

\* The last redirect request was accepted during the flow in progress, under
\* that flow's state.
AcceptedInThisFlow == InFlow /\ cb.put /\ cb.state = _state

\* C11: within one authorization flow, once a callback with a code and the
\* matching state was accepted, no further callback is accepted: no second
\* code is put on the queue.
C11_OneAcceptedCallbackPerFlow ==
    [][AcceptedInThisFlow => Len(_code_queue') <= Len(_code_queue)]_vars

\* The one code that was on the queue when the flow in progress began had
\* been put there by the last redirect request, which carried the state of
\* the flow before.
QueuedForFlowBefore ==
    call.backlog = 1 /\ cb.put /\ cb.state = StateValue(nflows - 1)

\* C12: the code a flow sends to the token endpoint, with the flow's own
\* verifier, was put on the queue by a callback accepted during that flow,
\* under that flow's state; a code queued for the flow before is never the
\* one a later flow takes.
C12_FlowSendsItsOwnCode ==
    (/\ cls = "AuthManager"
     /\ call.n_exchange > 0
     /\ call.backlog = 0 \/ QueuedForFlowBefore) =>
        /\ call.code_from = "this flow"
        /\ ExchangePayload.code_verifier = VerifierValue(nflows)

(***************************************************************************)
(* Properties of the token store.                                          *)
(***************************************************************************)
\* The token files that hold no record: missing, unreadable, not JSON, or
\* JSON that is no object.
NoRecordFiles == {FileMissing, FileUnreadable, FileInvalid, FileArray}

\* What a manager constructed now would load from the token file.
Loaded == _load_token(token_file)

\* C13: loading never raises, and on a token file that is missing,
\* unreadable, not JSON or no JSON object it leaves access_token and
\* refresh_token None: so are the fields of a manager just constructed on
\* such a file.
C13_LoadNeverRaises ==
    /\ ~Loaded.raised
    /\ token_file \in NoRecordFiles =>
           /\ Loaded.access_token = None
           /\ Loaded.refresh_token = None
           /\ ncalls = 0 => access_token = None /\ refresh_token = None

\* A manager constructed on a JSON array.
C13_Witness ==
    /\ cls = "AuthManager"
    /\ ncalls = 0
    /\ token_file = FileArray
    /\ _token_data = PyList
    /\ access_token = None
    /\ refresh_token = None

\* The record the call handed to _save_token: the code exchange's or the
\* refresh's r.json().
SavedRecord == IF call.n_exchange > 0 THEN call.exchange.body ELSE call.refresh.body

\* C14: a record saved with _save_token and loaded by a manager constructed
\* on the same token file loads with the access_token and the refresh_token
\* that were saved, the refresh_token None when the record has none.
C14_SaveLoadRoundTrip ==
    call.fs = "ok" =>
        /\ IsDict(SavedRecord)
        /\ ~Loaded.raised
        /\ Loaded.token_data = SavedRecord
        /\ Loaded.access_token = Get(SavedRecord[2], "access_token")
        /\ Loaded.refresh_token = Get(SavedRecord[2], "refresh_token")
        /\ "refresh_token" \notin DOMAIN SavedRecord[2] => Loaded.refresh_token = None

\* The record of a code exchange, saved over a file that held another one.
C14_Witness ==
    /\ cls = "AuthManager"
    /\ Ended
    /\ call.fs = "ok"
    /\ call.n_exchange = 1
    /\ SavedRecord = PyDict([k \in KeySet |-> IF k = "access_token" THEN "a2" ELSE "r2"])
    /\ call.before.file = JsonDump([k \in KeySet |-> IF k = "access_token" THEN "a1" ELSE "r1"])
    /\ Loaded.access_token = "a2"
    /\ Loaded.refresh_token = "r2"

\* C15: whenever AuthManager.get_access_token returns, on any path and for
\* any 200 answer of the token endpoint, what it returns is a token string,
\* never None, and is the access_token that is cached and persisted.
C15_ReturnsCachedPersistedToken ==
    (cls = "AuthManager" /\ Ended /\ outcome = "returned") =>
        /\ ret # None
        /\ ret = access_token
        /\ ret = Loaded.access_token

\* The call handed _save_token a record that holds an access_token.
SavedAccessToken ==
    call.fs # "none" /\ IsDict(SavedRecord) /\ "access_token" \in DOMAIN SavedRecord[2]

\* C16: after every write attempt through _save_token, a failed one
\* included, the cached access_token and refresh_token are those of the
\* token file.
C16_CacheEqualsFileAfterSave ==
    (cls = "AuthManager" /\ SavedAccessToken) =>
        /\ access_token = Loaded.access_token
        /\ refresh_token = Loaded.refresh_token

\* What a manager would have loaded from the token file as it was when the
\* call began.
LoadedBefore == _load_token(call.before.file)

\* C17: when _save_token fails after its write has begun, the token file
\* still holds the record it held before: loading it gives the access_token
\* and refresh_token of before.
C17_FailedWriteKeepsPreviousRecord ==
    (cls = "AuthManager" /\ SavedAccessToken /\ call.fs = "write_failed") =>
        /\ Loaded.access_token = LoadedBefore.access_token
        /\ Loaded.refresh_token = LoadedBefore.refresh_token

\* The last authorization flow has ended, by its exchange or by the timeout
\* of its wait, and no other has begun.
FlowEnded == nflows > 0 /\ ~InFlow

\* C18: once a flow has ended, a callback that carries its state is not
\* accepted any more: it puts no code on the queue.
C18_EndedFlowAcceptsNoCallback ==
    [][FlowEnded =>
          ~(/\ cb'.state = StateValue(nflows)
            /\ cb'.put
            /\ Len(_code_queue') > Len(_code_queue))]_vars

\* A record's two tokens are both absent, or its access_token is there
\* (an empty string is no token).
AbsentOrAccessToken(at, rt) == ~Truthy(at) => rt = None

\* C19: the record AuthManager holds and the one it has persisted are each
\* fully absent or hold an access_token, whatever 200 answer the token
\* endpoint gives: a call that began with such records leaves such records.
C19_NoRefreshTokenWithoutAccessToken ==
    (/\ cls = "AuthManager"
     /\ ncalls > 0
     /\ AbsentOrAccessToken(call.before.access_token, call.before.refresh_token)
     /\ AbsentOrAccessToken(LoadedBefore.access_token, LoadedBefore.refresh_token)) =>
        /\ AbsentOrAccessToken(access_token, refresh_token)
        /\ AbsentOrAccessToken(Loaded.access_token, Loaded.refresh_token)

(***************************************************************************)
(* Requests per call.                                                      *)
(***************************************************************************)
\* C20: one call of AuthManager.get_access_token sends at most one
\* validity check, at most one refresh and at most one code exchange,
\* whatever the answers are.
C20_NoRetry ==
    cls = "AuthManager" =>
        /\ call.n_test <= 1
        /\ call.n_refresh <= 1
        /\ call.n_exchange <= 1

\* A call whose validity check and whose refresh were both refused, each
\* sent once.
C20_Witness ==
    /\ cls = "AuthManager"
    /\ Ended
    /\ call.n_test = 1
    /\ call.test = 401
    /\ call.n_refresh = 1
    /\ call.refresh \in Rejections
    /\ outcome = KickAuthenticationError

(***************************************************************************)
(* Properties of force_new and of the validity check.                      *)
(***************************************************************************)
\* C21: with force_new, AuthManager.get_access_token sends neither the
\* validity check nor a refresh, whatever is cached; it runs the
\* interactive flow, and a token it returns is the one the flow's code
\* exchange obtained.
C21_ForceNewGoesToFlow ==
    (cls = "AuthManager" /\ ncalls > 0 /\ call.force_new) =>
        /\ call.n_test = 0
        /\ call.n_refresh = 0
        /\ pc \in {"idle", "flow", "wait", "exchange"}
        /\ Ended => call.browser /\ call.waited
        /\ (Ended /\ outcome = "returned") =>
               /\ call.flow = "returned token"
               /\ Exchanged(call.exchange)
               /\ call.exchange \in Successes
               /\ ret = Get(call.exchange.body[2], "access_token")
               /\ ret # None

\* A forced call on a manager that holds both tokens.
C21_Witness ==
    /\ cls = "AuthManager"
    /\ Ended
    /\ call.force_new
    /\ call.before.access_token = "a1"
    /\ call.before.refresh_token = "r1"
    /\ call.n_test = 0
    /\ call.n_refresh = 0
    /\ outcome = "returned"
    /\ ret = "a2"

\* The call is past its validity check: _test_token has returned.
TestTokenReturned == ncalls > 0 /\ ~call.force_new /\ pc # "case1"

\* _test_token returned True: the call ended in case 1.
TestTokenReturnedTrue == TestTokenReturned /\ call.via = "case1"

\* C22: _test_token never raises; it returns True only when an access
\* token is cached and the check was answered 200, and False on any other
\* status and on a timeout or transport error, after which the call goes
\* on.
C22_TestTokenNeverRaises ==
    TestTokenReturned =>
        /\ TestTokenReturnedTrue <=>
               /\ Truthy(call.before.access_token)
               /\ call.n_test = 1
               /\ call.test = 200
        /\ TestTokenReturnedTrue => outcome = "returned" /\ ret = call.before.access_token
        /\ (call.n_test = 1 /\ call.test # 200) => call.via # "case1"

\* The validity check met a transport error and the call went on to the
\* refresh.
C22_Witness ==
    /\ cls = "AuthManager"
    /\ call.n_test = 1
    /\ call.test = TransportError.status
    /\ pc = "case2"
    /\ outcome = "none"

\* C23: when no access token is cached (None or empty), _test_token
\* returns False without sending a request.
C23_NoTokenNoRequest ==
    (TestTokenReturned /\ ~Truthy(call.before.access_token)) =>
        /\ call.n_test = 0
        /\ ~TestTokenReturnedTrue

\* No access token but a refresh token cached: the call is at case 2
\* having sent nothing.
C23_Witness ==
    /\ cls = "AuthManager"
    /\ call.before.access_token = None
    /\ call.before.refresh_token = "r1"
    /\ pc = "case2"
    /\ call.n_test = 0

(***************************************************************************)
(* What a failed call leaves behind.                                       *)
(***************************************************************************)
\* C26: a call of AuthManager.get_access_token that ends by raising
\* KickAuthenticationError leaves the cached access_token and
\* refresh_token and the token file as they were before the call (here: a
\* call that began with an access token cached).
C26_AuthErrorLeavesTokens ==
    (/\ cls = "AuthManager"
     /\ Ended
     /\ outcome = KickAuthenticationError
     /\ Truthy(call.before.access_token)) =>
        /\ access_token = call.before.access_token
        /\ refresh_token = call.before.refresh_token
        /\ token_file = call.before.file

(***************************************************************************)
(* Termination.                                                            *)
(***************************************************************************)
\* C24: every call of AuthManager.get_access_token ends, by returning or
\* by raising, when every request it sends is answered or raises; a forced
\* call that no callback reaches ends when its wait on the queue expires.
C24_CallTerminates == (pc # "idle") ~> Ended

\* A forced call that no callback ever reached has ended by the timeout.
C24_Witness ==
    /\ cls = "AuthManager"
    /\ Ended
    /\ call.force_new
    /\ call.timed_out
    /\ cb = NoCallback
    /\ _code_queue = <<>>

(***************************************************************************)
(* Two writers.                                                            *)
(***************************************************************************)
\* Both threads have returned from _save_token.
BothSaved == \A t \in Writers : writers[t].at = "returned"

\* The record thread t saved.
RecordOf(t) == writers[t].token_data[2]

\* C25: when two threads save records to the same token file at the same
\* time, the writes do not interleave: afterwards the file holds one of
\* the two records in full, and the cached access_token and refresh_token
\* are those of one of the two records (here: records that each hold an
\* access token).
C25_WritersDoNotInterleave ==
    (BothSaved /\ \A t \in Writers : Truthy(Get(RecordOf(t), "access_token"))) =>
        /\ \E t \in Writers : token_file = JsonDump(RecordOf(t))
        /\ \E t \in Writers :
               /\ access_token = Get(RecordOf(t), "access_token")
               /\ refresh_token = Get(RecordOf(t), "refresh_token")

====
